---- MODULE Spec2Model ----
(***************************************************************************)
(* The one-time-code verification flows of PropertyPlus                    *)
(* (src/app/routes/auth.py): signup e-mail, password reset, password       *)
(* change, two-factor toggle and account deletion.  One client session     *)
(* (the Flask session), the users table, and a wall clock.  Every request  *)
(* handler is one action; its inputs (request fields, the random code,     *)
(* the outcome of the SMTP delivery, of the database reads and of the      *)
(* database write) are drawn from small sets.  login, register,            *)
(* verify_pwd_final, toggle_2fa_final and delete_account_verify, which     *)
(* go to the store more than once, are one action for each stretch in      *)
(* which no other request can commit: other clients' requests are served   *)
(* between them.                                                           *)
(***************************************************************************)
EXTENDS Integers, FiniteSets, Sequences, TLC

\* ------------------------------------------------------------------ bounds
\* The clock covers MaxCycles rounds of one code's life: issued, resent,
\* regenerated, expired.
MaxCycles == 1
\* The INSERTs of a behaviour: the clients register while users.id is below
\* MaxUserId.
MaxUserId == 3
\* time.time() at the start of a behaviour.
StartTime == 1000

\* ------------------------------------------------------- program constants
\* "> now - 60": a code younger than this is resent, not regenerated.
RESEND_WINDOW == 60
\* "< time.time() - 600": a code older than this is expired.
EXPIRY_WINDOW == 600

\* ------------------------------------------------------------ value spaces
NoEmail == "None"
NoCode == "None"
NoTime == -1
NoUser == [id |-> 0, email |-> "None", username |-> "None", password |-> "None",
           is_2fa_enabled |-> "None"]
\* The e-mail of a row whose email column is NULL.
NullEmail == "NULL"
\* users.id: the INSERT of create_user names no id, the table gives every new
\* row the next one.  The ids the table d has handed out.
UserIds(d) == DOMAIN d.users

Emails == {"a@x.com", "b@x.com"}
\* The "username" field of the login form: a user name or an e-mail address,
\* here those of the account that exists from the start.
LoginInputs == {"a@x.com", "user_a"}
Passwords == {"pw1", "pw2"}
\* random.choices(string.digits, k=6) joined: two of the 10^6 possible codes.
Codes == {"111111", "222222"}
\* What a client can put in the request's "otp" field.
Submissions == Codes
\* The "otp" key missing from the JSON body of verify_pwd_final.
Absent == "absent"
\* JSON values of the "status" field of toggle_2fa_final: true, false, null
\* and the string "false" (which PostgreSQL reads as the boolean false).
Statuses == {"True", "False", "null", "str_false"}
\* The instants, in seconds after the start of a round, at which requests
\* arrive: they put a code issued at 0 just inside, on and just outside each
\* window.  A round is followed by the next after RESEND_WINDOW more seconds.
Offsets == {0, RESEND_WINDOW - 1, RESEND_WINDOW, EXPIRY_WINDOW, EXPIRY_WINDOW + 1}
Round == EXPIRY_WINDOW + 1 + RESEND_WINDOW
Instants == {StartTime + k * Round + d : k \in 0 .. (MaxCycles - 1), d \in Offsets}
\* The purposes whose handlers one client calls in one behaviour.
FlowSets == {{p} : p \in {"signup", "reset", "pwd", "twofa", "delete"}}

Purposes == {"signup", "reset", "pwd", "twofa", "delete"}
\* The purposes of the settings pages, which a client reaches by logging in.
SettingsPurposes == {"pwd", "twofa", "delete"}

VARIABLES
    now,    \* time.time(), whole seconds
    sess,   \* the Flask session of the client: key -> value, None when absent
    db,     \* the users table: under users, for every id handed out, the
            \* row (NoUser when the row is deleted), and under users_id_seq
            \* the last id handed out
    last,   \* the last request: what it was given, what it answered and did
    ver,    \* history: purpose -> a verification succeeded and was not spent
    flows,  \* the purposes whose handlers the client calls in this behaviour
    other,  \* a second session cookie: another client's, or the one a request
            \* still in flight carries
    pend    \* the request of each client that waits between its two database
            \* transactions: mine for the client of sess, theirs for other's

vars == <<now, sess, db, last, ver, flows, other, pend>>

\* ------------------------------------------------------------------ helpers
\* session.clear(): no key is left.
EmptySession ==
    [user |-> NoEmail,
     current_otp |-> NoCode, current_email |-> NoEmail, current_otp_time |-> NoTime,
     temp_email |-> NoEmail,
     forgot_otp |-> NoCode, forgot_email |-> NoEmail, forgot_otp_time |-> NoTime,
     pwd_change_otp |-> NoCode, pwd_otp_time |-> NoTime, pwd_verify_success |-> FALSE,
     two_fa_otp |-> NoCode, two_fa_otp_time |-> NoTime, two_fa_verify_success |-> FALSE,
     delete_otp |-> NoCode, delete_otp_time |-> NoTime, del_verify_success |-> FALSE]

\* session.get("<x>_otp_time", 0)
TimeOr0(t) == IF t = NoTime THEN 0 ELSE t

\* The age a handler sees for a stored code (-1: no code stored).
AgeOf(otp, t) == IF otp = NoCode THEN -1 ELSE now - TimeOr0(t)

\* check_password_hash(generate_password_hash(p), q)
check_password_hash(stored, given) == stored = given

\* The rows of the users table d.
RowsIn(d) == {d.users[i] : i \in UserIds(d)} \ {NoUser}

\* WHERE email = %s in the table d: the rows with that e-mail; none when the
\* parameter is None, and never a row whose email is NULL.
RowsByEmailIn(d, email) == {u \in RowsIn(d) : email \in Emails /\ u.email = email}

RowsByEmail(email) == RowsByEmailIn(db, email)

\* WHERE username = %s
RowsByUsername(username) == {u \in RowsIn(db) : u.username = username}

\* cur.fetchone() after a SELECT with no ORDER BY: what it can return, any one
\* of the rows selected, None when there is none.
fetchone(rows) == IF rows = {} THEN {NoUser} ELSE rows

\* get_user_by_email(email): what it can return, a row with that e-mail or
\* None; None as well when the SELECT raises (the except branch logs and
\* returns None).
get_user_by_email(email, readOk) ==
    IF readOk THEN fetchone(RowsByEmail(email)) ELSE {NoUser}

\* get_user_by_username(username): what it can return, a row with that user
\* name or None.
get_user_by_username(username) == fetchone(RowsByUsername(username))

\* A lookup that never finds the address.
check_email_exists_Never(email) == FALSE

\* check_email_exists(email)
check_email_exists(email) == RowsByEmail(email) # {}

\* Python truthiness of the is_2fa_enabled column (TRUE, FALSE or NULL).
Truthy2fa(v) == v = "True"

\* The value PostgreSQL stores for is_2fa_enabled = %s.
Stored2fa(status) == IF status = "str_false" THEN "False" ELSE status

\* Resend with the window one second short.
Resend_ShortWindow(otp, t) == otp # NoCode /\ TimeOr0(t) > now - (RESEND_WINDOW - 1)

\* Resend with ">=" for ">".
Resend_Inclusive(otp, t) == otp # NoCode /\ TimeOr0(t) >= now - RESEND_WINDOW

\* Resend for as long as the code has not expired.
Resend_UntilExpiry(otp, t) == otp # NoCode /\ TimeOr0(t) > now - EXPIRY_WINDOW

\* "<x>_otp" in session and <x>_otp_time > now - 60: resend the stored code.
Resend(otp, t) == otp # NoCode /\ TimeOr0(t) > now - RESEND_WINDOW

\* "<x>_otp" in session and session["<x>_otp"] == user_otp
OtpMatches(otp, user_otp) == otp # NoCode /\ otp = user_otp

\* OtpExpired with the window taken as minutes.
OtpExpired_Minutes(t) == TimeOr0(t) < now - EXPIRY_WINDOW * 60

\* OtpExpired with "<=" for "<".
OtpExpired_Inclusive(t) == TimeOr0(t) <= now - EXPIRY_WINDOW

\* session.get("<x>_otp_time", 0) < time.time() - 600
OtpExpired(t) == TimeOr0(t) < now - EXPIRY_WINDOW

\* The answer of the five verify handlers.
VerifyMsg(otp, t, user_otp) ==
    IF OtpMatches(otp, user_otp)
    THEN (IF OtpExpired(t) THEN "OTP has expired" ELSE "ok")
    ELSE "Invalid OTP"

\* The record kept of a request: the handler and the account or address it
\* acted for, the "otp" and "status" fields it read, its answer (ok, msg), the
\* code it handed to the mailer and whether the mailer delivered it, whether
\* it generated that code, the age of the stored code it saw (-1: none), and
\* the store operation it called.  seq flips with every request; retry says
\* that the request repeats the one before it: a code check that had just
\* succeeded with the same code, or an issuance whose mail had just failed.
Req(op, subj, otp, ok, msg, sent, isNew, age, act) ==
    [seq |-> 1 - last.seq,
     retry |-> /\ last.op = op
               /\ \/ otp # NoCode /\ last.otp = otp /\ last.ok
                  \/ sent # NoCode /\ last.sent # NoCode /\ ~last.mailed,
     op |-> op, subj |-> subj, otp |-> otp, status |-> "none",
     ok |-> ok, msg |-> msg, sent |-> sent, mailed |-> FALSE,
     isNew |-> isNew, age |-> age, act |-> act]

\* No request in flight.
NoPending == [op |-> "none", email |-> NoEmail, password |-> "None",
              otp |-> NoCode, status |-> "none", user_id |-> 0]

\* The client calls the handlers of the purposes it has chosen, one request
\* at a time: the browser waits for the answer.  A handler reads and writes
\* the cookie its request carries and no other.
Idle(p) == p \in flows /\ pend.mine = NoPending /\ flows' = flows /\ other' = other

Flow(p) == Idle(p) /\ pend' = pend

\* A SELECT of check_email_exists or get_user_by_username raised: neither has
\* an except branch, and Flask answers 500.
ServerError(op, subj) ==
    /\ last' = Req(op, subj, NoCode, FALSE, "Internal Server Error",
                   NoCode, FALSE, -1, "none")
    /\ UNCHANGED <<now, sess, db, ver>>

Unauthorized(op) ==
    /\ sess.user = NoEmail
    /\ last' = Req(op, NoEmail, NoCode, FALSE, "Unauthorized", NoCode, FALSE, -1, "none")
    /\ UNCHANGED <<now, sess, db, ver>>

\* ---------------------------------------------------------------- initially
\* The users table when the client arrives: a@x.com has an account, with
\* two-factor as create_user left it or switched off since; b@x.com has none.
InitialDbs ==
    {[users |-> <<[id |-> 1, email |-> "a@x.com", username |-> "user_a",
                   password |-> "pw1", is_2fa_enabled |-> f]>>,
      users_id_seq |-> 1] :
        f \in {"True", "False"}}

Init ==
    /\ now = StartTime
    /\ sess = EmptySession
    /\ db \in InitialDbs
    /\ last = [seq |-> 0, retry |-> FALSE, op |-> "start", subj |-> NoEmail, otp |-> NoCode,
               status |-> "none", ok |-> TRUE, msg |-> "", sent |-> NoCode,
               mailed |-> FALSE, isNew |-> FALSE, age |-> -1, act |-> "none"]
    /\ ver = [p \in Purposes |-> FALSE]
    /\ flows \in FlowSets
    /\ other = EmptySession
    /\ pend = [mine |-> NoPending, theirs |-> NoPending]

\* -------------------------------------------------------------------- clock
\* A request is served within one instant of the clock.
Tick(t) ==
    /\ t > now
    /\ pend.mine = NoPending /\ pend.theirs = NoPending
    /\ now' = t
    /\ UNCHANGED <<sess, db, last, ver, flows, other, pend>>

\* ------------------------------------------------------------ login, logout
\* The end of login: the password is checked against the row found, and the
\* row is stored under session["user"].
login_answer(user, password) ==
    IF user # NoUser /\ check_password_hash(user.password, password)
    THEN /\ sess' = [sess EXCEPT !.user = user.email]
         /\ last' = Req("login", user.email, NoCode, TRUE, "", NoCode, FALSE, -1, "none")
    ELSE /\ sess' = sess
         /\ last' = Req("login", NoEmail, NoCode, FALSE,
                        "Invalid username or password", NoCode, FALSE, -1, "none")

\* login up to the end of get_user_by_username(login_input): when a user has
\* that name the handler goes on to the password at once; when none has, the
\* look-up by e-mail follows, on a connection of its own.  The clients that
\* log in are those that go on to a settings page; a client that signs up is
\* logged in by register.
login(login_input, password, nameOk) ==
    /\ flows \cap SettingsPurposes # {}
    /\ pend.mine = NoPending
    /\ IF ~nameOk
       THEN /\ sess' = sess
            /\ last' = Req("login", NoEmail, NoCode, FALSE,
                           "Internal Server Error", NoCode, FALSE, -1, "none")
            /\ pend' = pend
       ELSE \E by_name \in get_user_by_username(login_input) :
            IF by_name # NoUser
            THEN login_answer(by_name, password) /\ pend' = pend
            ELSE /\ pend' = [pend EXCEPT !.mine = [NoPending EXCEPT !.op = "login",
                                                                    !.email = login_input,
                                                                    !.password = password]]
                 /\ UNCHANGED <<sess, last>>
    /\ UNCHANGED <<now, db, ver, flows, other>>

\* login from get_user_by_email(login_input) on.
login_by_email(readOk) ==
    LET req == pend.mine IN
    /\ req.op = "login"
    /\ \E user \in get_user_by_email(req.email, readOk) :
            login_answer(user, req.password)
    /\ pend' = [pend EXCEPT !.mine = NoPending]
    /\ UNCHANGED <<now, db, ver, flows, other>>

\* logout dropping the user and keeping the rest of the session.
logout_KeepCodes ==
    /\ pend.mine = NoPending
    /\ sess' = [sess EXCEPT !.user = NoEmail]
    /\ ver' = ver
    /\ last' = Req("logout", NoEmail, NoCode, TRUE, "", NoCode, FALSE, -1, "none")
    /\ UNCHANGED <<now, db, flows, other, pend>>

logout ==
    /\ pend.mine = NoPending
    /\ sess' = EmptySession
    /\ ver' = [p \in Purposes |-> FALSE]
    /\ last' = Req("logout", NoEmail, NoCode, TRUE, "", NoCode, FALSE, -1, "none")
    /\ UNCHANGED <<now, db, flows, other, pend>>

\* ------------------------------------------------------------------- signup
\* api_send_otp stamping the stored code anew on every resend.
api_send_otp_RestartClock(email, fresh, mailOk, readOk) ==
    /\ Flow("signup")
    /\ IF ~readOk
       THEN ServerError("api_send_otp", email)
       ELSE IF check_email_exists(email)
       THEN /\ sess' = sess
            /\ last' = Req("api_send_otp", email, NoCode, FALSE,
                           "Email already registered", NoCode, FALSE, -1, "none")
       ELSE LET reuse == /\ sess.current_email = email
                         /\ Resend(sess.current_otp, sess.current_otp_time)
                otp == IF reuse THEN sess.current_otp ELSE fresh
                s1 == IF reuse THEN [sess EXCEPT !.current_otp_time = now]
                      ELSE [sess EXCEPT !.current_otp = otp,
                                        !.current_email = email,
                                        !.current_otp_time = now]
            IN /\ sess' = [s1 EXCEPT !.temp_email = email]
               /\ last' = [Req("api_send_otp", email, NoCode, mailOk,
                              IF mailOk THEN "" ELSE "Failed to send email",
                              otp, ~reuse,
                              AgeOf(sess.current_otp, sess.current_otp_time), "none") EXCEPT !.mailed = mailOk]
    /\ UNCHANGED <<now, db, ver>>

api_send_otp(email, fresh, mailOk, readOk) ==
    /\ Flow("signup")
    /\ IF ~readOk
       THEN ServerError("api_send_otp", email)
       ELSE IF check_email_exists(email)
       THEN /\ sess' = sess
            /\ last' = Req("api_send_otp", email, NoCode, FALSE,
                           "Email already registered", NoCode, FALSE, -1, "none")
       ELSE LET reuse == /\ sess.current_email = email
                         /\ Resend(sess.current_otp, sess.current_otp_time)
                otp == IF reuse THEN sess.current_otp ELSE fresh
                s1 == IF reuse THEN sess
                      ELSE [sess EXCEPT !.current_otp = otp,
                                        !.current_email = email,
                                        !.current_otp_time = now]
            IN /\ sess' = [s1 EXCEPT !.temp_email = email]
               /\ last' = [Req("api_send_otp", email, NoCode, mailOk,
                              IF mailOk THEN "" ELSE "Failed to send email",
                              otp, ~reuse,
                              AgeOf(sess.current_otp, sess.current_otp_time), "none") EXCEPT !.mailed = mailOk]
    /\ UNCHANGED <<now, db, ver>>

\* api_verify_otp dropping the stored code after a wrong attempt.
api_verify_otp_Strict(user_otp) ==
    LET msg == VerifyMsg(sess.current_otp, sess.current_otp_time, user_otp) IN
    /\ Flow("signup")
    /\ last' = Req("api_verify_otp", sess.current_email, user_otp, msg = "ok", msg,
                   NoCode, FALSE, AgeOf(sess.current_otp, sess.current_otp_time), "none")
    /\ ver' = [ver EXCEPT !["signup"] = @ \/ msg = "ok"]
    /\ sess' = IF msg = "Invalid OTP" THEN [sess EXCEPT !.current_otp = NoCode] ELSE sess
    /\ UNCHANGED <<now, db>>

api_verify_otp(user_otp) ==
    LET msg == VerifyMsg(sess.current_otp, sess.current_otp_time, user_otp) IN
    /\ Flow("signup")
    /\ last' = Req("api_verify_otp", sess.current_email, user_otp, msg = "ok", msg,
                   NoCode, FALSE, AgeOf(sess.current_otp, sess.current_otp_time), "none")
    /\ ver' = [ver EXCEPT !["signup"] = @ \/ msg = "ok"]
    /\ UNCHANGED <<now, sess, db>>

\* create_user(data, hashed_pw): the INSERT of a row with the next id, the
\* e-mail given (NULL for None) and is_2fa_enabled TRUE; when it raises
\* nothing is written.
create_user(email, username, password, dbOk) ==
    IF dbOk
    THEN [db EXCEPT !.users = Append(@, [id |-> db.users_id_seq + 1,
                                         email |-> IF email = NoEmail
                                                   THEN NullEmail ELSE email,
                                         username |-> username,
                                         password |-> password,
                                         is_2fa_enabled |-> "True"]),
                    !.users_id_seq = @ + 1]
    ELSE db

\* register up to send_welcome_email: a form without "password" raises
\* KeyError before anything is written and the except branch answers str(e);
\* after the INSERT the handler waits for the mailer.  The e-mail is the
\* session's temp_email, None when the key is absent; the handler looks
\* neither for a row with that e-mail nor for one with the user name.
register(username, password, dbOk) ==
    LET email == sess.temp_email
        created == password # Absent /\ dbOk
    IN
    /\ Idle("signup")
    /\ IF created
       THEN /\ db' = create_user(email, username, password, dbOk)
            /\ pend' = [pend EXCEPT !.mine = [NoPending EXCEPT !.op = "register",
                                                               !.email = email]]
            /\ UNCHANGED <<sess, ver, last>>
       ELSE /\ last' = Req("register", email, NoCode, FALSE,
                           IF password = Absent THEN "'password'" ELSE "Database Error",
                           NoCode, FALSE, -1,
                           IF password = Absent THEN "none" ELSE "create_user")
            /\ UNCHANGED <<db, sess, ver, pend>>
    /\ UNCHANGED <<now>>

\* register after send_welcome_email: the row is read back and, when it is
\* there, stored under session["user"]; the answer is success either way.
register_login(readOk) ==
    LET email == pend.mine.email IN
    /\ pend.mine.op = "register"
    /\ \E new_user \in get_user_by_email(email, readOk) :
            sess' = IF new_user # NoUser THEN [sess EXCEPT !.user = new_user.email]
                    ELSE sess
    /\ ver' = [ver EXCEPT !["signup"] = FALSE]
    /\ last' = Req("register", email, NoCode, TRUE, "", NoCode, FALSE, -1, "create_user")
    /\ pend' = [pend EXCEPT !.mine = NoPending]
    /\ UNCHANGED <<now, db, flows, other>>

\* ----------------------------------------------------------- password reset
\* send_forgot_otp keeping the new code only when the mail went out.
send_forgot_otp_StoreAfterSend(email, fresh, mailOk, readOk) ==
    /\ Flow("reset")
    /\ IF get_user_by_email(email, readOk) = {NoUser}
       THEN /\ sess' = sess
            /\ last' = Req("send_forgot_otp", email, NoCode, FALSE,
                           "Email not registered", NoCode, FALSE, -1, "none")
       ELSE LET reuse == /\ sess.forgot_email = email
                         /\ Resend(sess.forgot_otp, sess.forgot_otp_time)
                otp == IF reuse THEN sess.forgot_otp ELSE fresh
            IN /\ sess' = IF reuse \/ ~mailOk THEN sess
                          ELSE [sess EXCEPT !.forgot_otp = otp,
                                            !.forgot_email = email,
                                            !.forgot_otp_time = now]
               /\ last' = [Req("send_forgot_otp", email, NoCode, mailOk,
                               IF mailOk THEN "" ELSE "Failed to send email",
                               otp, ~reuse,
                               AgeOf(sess.forgot_otp, sess.forgot_otp_time), "none")
                           EXCEPT !.mailed = mailOk]
    /\ UNCHANGED <<now, db, ver>>

send_forgot_otp(email, fresh, mailOk, readOk) ==
    /\ Flow("reset")
    /\ IF get_user_by_email(email, readOk) = {NoUser}
       THEN /\ sess' = sess
            /\ last' = Req("send_forgot_otp", email, NoCode, FALSE,
                           "Email not registered", NoCode, FALSE, -1, "none")
       ELSE LET reuse == /\ sess.forgot_email = email
                         /\ Resend(sess.forgot_otp, sess.forgot_otp_time)
                otp == IF reuse THEN sess.forgot_otp ELSE fresh
            IN /\ sess' = IF reuse THEN sess
                          ELSE [sess EXCEPT !.forgot_otp = otp,
                                            !.forgot_email = email,
                                            !.forgot_otp_time = now]
               /\ last' = [Req("send_forgot_otp", email, NoCode, mailOk,
                              IF mailOk THEN "" ELSE "Failed to send email",
                              otp, ~reuse,
                              AgeOf(sess.forgot_otp, sess.forgot_otp_time), "none") EXCEPT !.mailed = mailOk]
    /\ UNCHANGED <<now, db, ver>>

verify_forgot_otp(user_otp) ==
    LET msg == VerifyMsg(sess.forgot_otp, sess.forgot_otp_time, user_otp) IN
    /\ Flow("reset")
    /\ last' = Req("verify_forgot_otp", sess.forgot_email, user_otp, msg = "ok", msg,
                   NoCode, FALSE, AgeOf(sess.forgot_otp, sess.forgot_otp_time), "none")
    /\ ver' = [ver EXCEPT !["reset"] = @ \/ msg = "ok"]
    /\ UNCHANGED <<now, sess, db>>

\* update_user_password(email, hashed_pw): the UPDATE of every row with that
\* e-mail; an UPDATE of no row succeeds too.
update_user_password(email, new_password, dbOk) ==
    IF dbOk
    THEN [db EXCEPT !.users = [i \in UserIds(db) |->
                                  IF db.users[i] \in RowsByEmail(email)
                                  THEN [db.users[i] EXCEPT !.password = new_password]
                                  ELSE db.users[i]]]
    ELSE db

reset_password(new_password, dbOk) ==
    LET email == sess.forgot_email IN
    /\ Flow("reset")
    /\ IF email = NoEmail
       THEN /\ last' = Req("reset_password", email, NoCode, FALSE, "Invalid request",
                           NoCode, FALSE, -1, "none")
            /\ UNCHANGED <<db, sess, ver>>
       ELSE /\ db' = update_user_password(email, new_password, dbOk)
            /\ IF dbOk
               THEN /\ sess' = [sess EXCEPT !.forgot_otp = NoCode,
                                            !.forgot_email = NoEmail]
                    /\ ver' = [ver EXCEPT !["reset"] = FALSE]
               ELSE UNCHANGED <<sess, ver>>
            /\ last' = Req("reset_password", email, NoCode, dbOk,
                           IF dbOk THEN "Password updated successfully"
                           ELSE "Database error",
                           NoCode, FALSE, -1, "update_user_password")
    /\ UNCHANGED <<now>>

\* ---------------------------------------------------------- password change
change_password(fresh, mailOk, readOk) ==
    /\ Flow("pwd")
    /\ \/ Unauthorized("change_password")
       \/ /\ sess.user # NoEmail
          /\ \E user \in get_user_by_email(sess.user, readOk) :
             LET email == sess.user
             IN IF user # NoUser /\ ~Truthy2fa(user.is_2fa_enabled)
                THEN /\ sess' = sess
                     /\ last' = Req("change_password", email, NoCode, TRUE,
                                    "otp_required false", NoCode, FALSE, -1, "none")
                ELSE LET reuse == Resend(sess.pwd_change_otp, sess.pwd_otp_time)
                         otp == IF reuse THEN sess.pwd_change_otp ELSE fresh
                     IN /\ sess' = IF reuse THEN sess
                                   ELSE [sess EXCEPT !.pwd_change_otp = otp,
                                                     !.pwd_otp_time = now]
                        /\ last' = [Req("change_password", email, NoCode, mailOk,
                                       IF mailOk THEN "OTP sent to your email"
                                       ELSE "Failed to send OTP",
                                       otp, ~reuse,
                                       AgeOf(sess.pwd_change_otp, sess.pwd_otp_time),
                                       "none") EXCEPT !.mailed = mailOk]
          /\ UNCHANGED <<now, db, ver>>

verify_otp_only(user_otp) ==
    /\ Flow("pwd")
    /\ \/ Unauthorized("verify_otp_only")
       \/ /\ sess.user # NoEmail
          /\ LET msg == VerifyMsg(sess.pwd_change_otp, sess.pwd_otp_time, user_otp) IN
             /\ last' = Req("verify_otp_only", sess.user, user_otp, msg = "ok", msg,
                            NoCode, FALSE,
                            AgeOf(sess.pwd_change_otp, sess.pwd_otp_time), "none")
             /\ ver' = [ver EXCEPT !["pwd"] = @ \/ msg = "ok"]
          /\ UNCHANGED <<now, sess, db>>

verify_old_pwd(password, readOk) ==
    /\ Flow("pwd")
    /\ \/ Unauthorized("verify_old_pwd")
       \/ /\ sess.user # NoEmail
          /\ \E db_user \in get_user_by_email(sess.user, readOk) :
             LET good == db_user # NoUser /\ check_password_hash(db_user.password, password)
             IN /\ sess' = IF good THEN [sess EXCEPT !.pwd_verify_success = TRUE]
                           ELSE sess
                /\ ver' = [ver EXCEPT !["pwd"] = @ \/ good]
                /\ last' = Req("verify_old_pwd", sess.user, NoCode, good,
                               IF good THEN "" ELSE "Incorrect password",
                               NoCode, FALSE, -1, "none")
          /\ UNCHANGED <<now, db>>

\* verify_pwd_final up to the call of update_user_password: the row is read
\* in a transaction of its own, and the UPDATE follows in another.
verify_pwd_final(otp_field, new_password, readOk) ==
    /\ Idle("pwd")
    /\ \/ Unauthorized("verify_pwd_final") /\ pend' = pend
       \/ /\ sess.user # NoEmail
          /\ \E db_user \in get_user_by_email(sess.user, readOk) :
             LET email == sess.user
                 is_verified ==
                     IF otp_field # Absent
                     THEN /\ OtpMatches(sess.pwd_change_otp, otp_field)
                          /\ TimeOr0(sess.pwd_otp_time) >= now - EXPIRY_WINDOW
                     ELSE sess.pwd_verify_success
                 age == AgeOf(sess.pwd_change_otp, sess.pwd_otp_time)
                 otp == IF otp_field = Absent THEN NoCode ELSE otp_field
             IN IF ~is_verified
                THEN /\ last' = Req("verify_pwd_final", email, otp, FALSE,
                                    "Verification failed or timed out",
                                    NoCode, FALSE, age, "none")
                     /\ UNCHANGED <<db, sess, ver, pend>>
                ELSE IF db_user # NoUser
                        /\ check_password_hash(db_user.password, new_password)
                THEN /\ last' = Req("verify_pwd_final", email, otp, FALSE,
                                    "New password cannot be the same as your old password",
                                    NoCode, FALSE, age, "none")
                     /\ ver' = [ver EXCEPT !["pwd"] = TRUE]
                     /\ UNCHANGED <<db, sess, pend>>
                ELSE /\ pend' = [pend EXCEPT !.mine =
                                    [NoPending EXCEPT !.op = "verify_pwd_final",
                                                      !.email = email,
                                                      !.password = new_password,
                                                      !.otp = otp]]
                     /\ UNCHANGED <<db, sess, ver, last>>
          /\ UNCHANGED <<now>>

\* verify_pwd_final from update_user_password on: the UPDATE, the pops, the
\* notification (sent on success only) and the answer.
verify_pwd_final_update(dbOk) ==
    LET req == pend.mine IN
    /\ req.op = "verify_pwd_final"
    /\ db' = update_user_password(req.email, req.password, dbOk)
    /\ IF dbOk
       THEN /\ sess' = [sess EXCEPT !.pwd_change_otp = NoCode,
                                    !.pwd_verify_success = FALSE]
            /\ ver' = [ver EXCEPT !["pwd"] = FALSE]
       ELSE /\ sess' = sess
            /\ ver' = [ver EXCEPT !["pwd"] = TRUE]
    /\ last' = Req("verify_pwd_final", req.email, req.otp, dbOk,
                   IF dbOk THEN "Password changed successfully" ELSE "Database error",
                   NoCode, FALSE, AgeOf(sess.pwd_change_otp, sess.pwd_otp_time),
                   "update_user_password")
    /\ pend' = [pend EXCEPT !.mine = NoPending]
    /\ UNCHANGED <<now, flows, other>>

\* --------------------------------------------------------- two-factor toggle
toggle_2fa_otp(fresh, mailOk) ==
    /\ Flow("twofa")
    /\ \/ Unauthorized("toggle_2fa_otp")
       \/ /\ sess.user # NoEmail
          /\ LET reuse == Resend(sess.two_fa_otp, sess.two_fa_otp_time)
                 otp == IF reuse THEN sess.two_fa_otp ELSE fresh
             IN /\ sess' = IF reuse THEN sess
                           ELSE [sess EXCEPT !.two_fa_otp = otp,
                                             !.two_fa_otp_time = now]
                /\ last' = [Req("toggle_2fa_otp", sess.user, NoCode, mailOk,
                               IF mailOk THEN "" ELSE "Failed to send OTP",
                               otp, ~reuse,
                               AgeOf(sess.two_fa_otp, sess.two_fa_otp_time), "none") EXCEPT !.mailed = mailOk]
          /\ UNCHANGED <<now, db, ver>>

\* verify_2fa_otp setting the success flag of the password change as well.
verify_2fa_otp_SharedFlag(user_otp) ==
    /\ Flow("twofa")
    /\ \/ Unauthorized("verify_2fa_otp")
       \/ /\ sess.user # NoEmail
          /\ LET msg == VerifyMsg(sess.two_fa_otp, sess.two_fa_otp_time, user_otp) IN
             /\ sess' = IF msg = "ok"
                        THEN [sess EXCEPT !.two_fa_verify_success = TRUE,
                                          !.pwd_verify_success = TRUE]
                        ELSE sess
             /\ last' = Req("verify_2fa_otp", sess.user, user_otp, msg = "ok", msg,
                            NoCode, FALSE,
                            AgeOf(sess.two_fa_otp, sess.two_fa_otp_time), "none")
             /\ ver' = [ver EXCEPT !["twofa"] = @ \/ msg = "ok"]
          /\ UNCHANGED <<now, db>>

\* verify_2fa_otp dropping the stored code once it has matched.
verify_2fa_otp_OneShot(user_otp) ==
    /\ Flow("twofa")
    /\ \/ Unauthorized("verify_2fa_otp")
       \/ /\ sess.user # NoEmail
          /\ LET msg == VerifyMsg(sess.two_fa_otp, sess.two_fa_otp_time, user_otp) IN
             /\ sess' = IF msg = "ok"
                        THEN [sess EXCEPT !.two_fa_verify_success = TRUE,
                                          !.two_fa_otp = NoCode]
                        ELSE sess
             /\ last' = Req("verify_2fa_otp", sess.user, user_otp, msg = "ok", msg,
                            NoCode, FALSE,
                            AgeOf(sess.two_fa_otp, sess.two_fa_otp_time), "none")
             /\ ver' = [ver EXCEPT !["twofa"] = @ \/ msg = "ok"]
          /\ UNCHANGED <<now, db>>

verify_2fa_otp(user_otp) ==
    /\ Flow("twofa")
    /\ \/ Unauthorized("verify_2fa_otp")
       \/ /\ sess.user # NoEmail
          /\ LET msg == VerifyMsg(sess.two_fa_otp, sess.two_fa_otp_time, user_otp) IN
             /\ sess' = IF msg = "ok"
                        THEN [sess EXCEPT !.two_fa_verify_success = TRUE]
                        ELSE sess
             /\ last' = Req("verify_2fa_otp", sess.user, user_otp, msg = "ok", msg,
                            NoCode, FALSE,
                            AgeOf(sess.two_fa_otp, sess.two_fa_otp_time), "none")
             /\ ver' = [ver EXCEPT !["twofa"] = @ \/ msg = "ok"]
          /\ UNCHANGED <<now, db>>

\* update_user_2fa_status(email, status): the UPDATE of every row with that
\* e-mail; an UPDATE of no row succeeds too.
update_user_2fa_status(email, status, dbOk) ==
    IF dbOk
    THEN [db EXCEPT !.users = [i \in UserIds(db) |->
                                  IF db.users[i] \in RowsByEmail(email)
                                  THEN [db.users[i] EXCEPT
                                            !.is_2fa_enabled = Stored2fa(status)]
                                  ELSE db.users[i]]]
    ELSE db

\* toggle_2fa_final up to the call of update_user_2fa_status: the row is read
\* and the password checked in one transaction, the UPDATE follows in another.
toggle_2fa_final(target_status, password, readOk) ==
    /\ Idle("twofa")
    /\ \/ Unauthorized("toggle_2fa_final") /\ pend' = pend
       \/ /\ sess.user # NoEmail
          /\ \E db_user \in get_user_by_email(sess.user, readOk) :
             LET email == sess.user
             IN IF db_user = NoUser \/ ~check_password_hash(db_user.password, password)
                THEN /\ last' = [Req("toggle_2fa_final", email, NoCode, FALSE,
                                     "Incorrect password", NoCode, FALSE, -1, "none")
                                 EXCEPT !.status = target_status]
                     /\ UNCHANGED <<db, sess, ver, pend>>
                ELSE IF target_status = "False" /\ ~sess.two_fa_verify_success
                THEN /\ last' = [Req("toggle_2fa_final", email, NoCode, FALSE,
                                     "Verification incomplete", NoCode, FALSE, -1, "none")
                                 EXCEPT !.status = target_status]
                     /\ UNCHANGED <<db, sess, ver, pend>>
                ELSE /\ pend' = [pend EXCEPT !.mine =
                                    [NoPending EXCEPT !.op = "toggle_2fa_final",
                                                      !.email = email,
                                                      !.status = target_status]]
                     /\ UNCHANGED <<db, sess, ver, last>>
          /\ now' = now

\* toggle_2fa_final from update_user_2fa_status on: the UPDATE, the pops and
\* the answer.
toggle_2fa_final_update(dbOk) ==
    LET req == pend.mine IN
    /\ req.op = "toggle_2fa_final"
    /\ db' = update_user_2fa_status(req.email, req.status, dbOk)
    /\ IF dbOk
       THEN /\ sess' = [sess EXCEPT !.two_fa_verify_success = FALSE,
                                    !.two_fa_otp = NoCode]
            /\ ver' = [ver EXCEPT !["twofa"] = FALSE]
       ELSE UNCHANGED <<sess, ver>>
    /\ last' = [Req("toggle_2fa_final", req.email, NoCode, dbOk,
                    IF dbOk THEN "" ELSE "Database error",
                    NoCode, FALSE, -1, "update_user_2fa_status")
                EXCEPT !.status = req.status]
    /\ pend' = [pend EXCEPT !.mine = NoPending]
    /\ UNCHANGED <<now, flows, other>>

\* --------------------------------------------------------- account deletion
delete_account_request(fresh, mailOk) ==
    /\ Flow("delete")
    /\ \/ Unauthorized("delete_account_request")
       \/ /\ sess.user # NoEmail
          /\ LET reuse == Resend(sess.delete_otp, sess.delete_otp_time)
                 otp == IF reuse THEN sess.delete_otp ELSE fresh
             IN /\ sess' = IF reuse THEN sess
                           ELSE [sess EXCEPT !.delete_otp = otp,
                                             !.delete_otp_time = now]
                /\ last' = [Req("delete_account_request", sess.user, NoCode, mailOk,
                               IF mailOk THEN "Verification code sent"
                               ELSE "Failed to send code",
                               otp, ~reuse,
                               AgeOf(sess.delete_otp, sess.delete_otp_time), "none") EXCEPT !.mailed = mailOk]
          /\ UNCHANGED <<now, db, ver>>

verify_otp_only_del(user_otp) ==
    /\ Flow("delete")
    /\ \/ Unauthorized("verify_otp_only_del")
       \/ /\ sess.user # NoEmail
          /\ LET msg == VerifyMsg(sess.delete_otp, sess.delete_otp_time, user_otp) IN
             /\ sess' = IF msg = "ok"
                        THEN [sess EXCEPT !.del_verify_success = TRUE]
                        ELSE sess
             /\ last' = Req("verify_otp_only_del", sess.user, user_otp, msg = "ok", msg,
                            NoCode, FALSE,
                            AgeOf(sess.delete_otp, sess.delete_otp_time), "none")
             /\ ver' = [ver EXCEPT !["delete"] = @ \/ msg = "ok"]
          /\ UNCHANGED <<now, db>>

\* delete_user_by_email(email), its SELECT: what fetchone can return, the id
\* of a row with that e-mail, 0 when there is none.
select_user_id(email) == {u.id : u \in fetchone(RowsByEmail(email))}

\* delete_user_by_email(email), its DELETEs and the commit: the row with the
\* id selected goes, if it is still there; nothing goes when a statement
\* raises.
delete_user_by_email(user_id, dbOk) ==
    IF dbOk /\ user_id \in UserIds(db)
    THEN [db EXCEPT !.users = [@ EXCEPT ![user_id] = NoUser]]
    ELSE db

\* delete_account_verify dropping the verified state on a wrong password.
delete_account_verify_SpendOnWrongPassword(password, readOk) ==
    /\ Idle("delete")
    /\ \/ Unauthorized("delete_account_verify") /\ pend' = pend
       \/ /\ sess.user # NoEmail
          /\ \E db_user \in get_user_by_email(sess.user, readOk) :
             LET email == sess.user
             IN IF ~sess.del_verify_success
                THEN /\ last' = Req("delete_account_verify", email, NoCode, FALSE,
                                    "OTP verification incomplete",
                                    NoCode, FALSE, -1, "none")
                     /\ UNCHANGED <<db, sess, ver, pend>>
                ELSE IF db_user = NoUser \/ ~check_password_hash(db_user.password, password)
                THEN /\ last' = Req("delete_account_verify", email, NoCode, FALSE,
                                    "Incorrect password", NoCode, FALSE, -1, "none")
                     /\ sess' = [sess EXCEPT !.del_verify_success = FALSE]
                     /\ ver' = [ver EXCEPT !["delete"] = FALSE]
                     /\ UNCHANGED <<db, pend>>
                ELSE /\ pend' = [pend EXCEPT !.mine =
                                    [NoPending EXCEPT !.op = "delete_account_verify",
                                                      !.email = email]]
                     /\ UNCHANGED <<db, sess, ver, last>>
          /\ now' = now

\* delete_account_verify up to the call of delete_user_by_email: the verified
\* state is tested, the row read and the password checked; the deletion
\* follows in a transaction of its own.
delete_account_verify(password, readOk) ==
    /\ Idle("delete")
    /\ \/ Unauthorized("delete_account_verify") /\ pend' = pend
       \/ /\ sess.user # NoEmail
          /\ \E db_user \in get_user_by_email(sess.user, readOk) :
             LET email == sess.user
             IN IF ~sess.del_verify_success
                THEN /\ last' = Req("delete_account_verify", email, NoCode, FALSE,
                                    "OTP verification incomplete",
                                    NoCode, FALSE, -1, "none")
                     /\ UNCHANGED <<db, sess, ver, pend>>
                ELSE IF db_user = NoUser \/ ~check_password_hash(db_user.password, password)
                THEN /\ last' = Req("delete_account_verify", email, NoCode, FALSE,
                                    "Incorrect password", NoCode, FALSE, -1, "none")
                     /\ UNCHANGED <<db, sess, ver, pend>>
                ELSE /\ pend' = [pend EXCEPT !.mine =
                                    [NoPending EXCEPT !.op = "delete_account_verify",
                                                      !.email = email]]
                     /\ UNCHANGED <<db, sess, ver, last>>
          /\ now' = now

\* delete_account_verify in delete_user_by_email, up to the end of its
\* SELECT: with no row, or when the SELECT raises, the answer is "Database
\* error".  The SELECT and the DELETEs are one transaction that takes no lock
\* at the SELECT, so other requests commit between the two.
delete_account_verify_select(dbOk) ==
    LET req == pend.mine IN
    /\ req.op = "delete_account_verify"
    /\ \E user_id \in select_user_id(req.email) :
       IF dbOk /\ user_id # 0
       THEN /\ pend' = [pend EXCEPT !.mine = [req EXCEPT !.op = "delete_user_by_email",
                                                         !.user_id = user_id]]
            /\ UNCHANGED <<db, sess, ver, last>>
       ELSE /\ last' = Req("delete_account_verify", req.email, NoCode, FALSE,
                           "Database error", NoCode, FALSE, -1, "delete_user_by_email")
            /\ pend' = [pend EXCEPT !.mine = NoPending]
            /\ UNCHANGED <<db, sess, ver>>
    /\ UNCHANGED <<now, flows, other>>

\* delete_account_verify from the DELETEs of delete_user_by_email on: the
\* commit (True also when the row had gone in between), the deletion mail,
\* session.clear() and the answer.
delete_account_verify_delete(dbOk) ==
    LET req == pend.mine IN
    /\ req.op = "delete_user_by_email"
    /\ db' = delete_user_by_email(req.user_id, dbOk)
    /\ IF dbOk
       THEN /\ sess' = EmptySession
            /\ ver' = [p \in Purposes |-> FALSE]
       ELSE UNCHANGED <<sess, ver>>
    /\ last' = Req("delete_account_verify", req.email, NoCode, dbOk,
                   IF dbOk THEN "" ELSE "Database error",
                   NoCode, FALSE, -1, "delete_user_by_email")
    /\ pend' = [pend EXCEPT !.mine = NoPending]
    /\ UNCHANGED <<now, flows, other>>

\* ----------------------------------------------------------- the next step
Next ==
    \/ \E t \in Instants : Tick(t)
    \/ \E i \in LoginInputs, p \in Passwords, n \in BOOLEAN : login(i, p, n)
    \/ \E r \in BOOLEAN : login_by_email(r)
    \/ logout
    \/ \E e \in Emails, c \in Codes, m, r \in BOOLEAN : api_send_otp(e, c, m, r)
    \/ \E c \in Submissions : api_verify_otp(c)
    \/ \E p \in {"pw2", Absent}, k \in BOOLEAN :
            /\ (p # Absent /\ k) => db.users_id_seq < MaxUserId
            /\ register("user_b", p, k)
    \/ \E r \in BOOLEAN : register_login(r)
    \/ \E e \in Emails, c \in Codes, m, r \in BOOLEAN : send_forgot_otp(e, c, m, r)
    \/ \E c \in Submissions : verify_forgot_otp(c)
    \/ \E p \in Passwords, k \in BOOLEAN : reset_password(p, k)
    \/ \E c \in Codes, m, r \in BOOLEAN : change_password(c, m, r)
    \/ \E c \in Submissions : verify_otp_only(c)
    \/ \E p \in Passwords, r \in BOOLEAN : verify_old_pwd(p, r)
    \/ \E c \in Submissions \cup {Absent}, p \in Passwords, r \in BOOLEAN :
            verify_pwd_final(c, p, r)
    \/ \E k \in BOOLEAN : verify_pwd_final_update(k)
    \/ \E c \in Codes, m \in BOOLEAN : toggle_2fa_otp(c, m)
    \/ \E c \in Submissions : verify_2fa_otp(c)
    \/ \E st \in Statuses, p \in Passwords, r \in BOOLEAN :
            toggle_2fa_final(st, p, r)
    \/ \E k \in BOOLEAN : toggle_2fa_final_update(k)
    \/ \E c \in Codes, m \in BOOLEAN : delete_account_request(c, m)
    \/ \E c \in Submissions : verify_otp_only_del(c)
    \/ \E p \in Passwords, r \in BOOLEAN : delete_account_verify(p, r)
    \/ \E k \in BOOLEAN : delete_account_verify_select(k)
    \/ \E k \in BOOLEAN : delete_account_verify_delete(k)

Spec == Init /\ [][Next]_vars

\* ======================================================================
\* Further specifications: the same handlers under other circumstances.
\* ======================================================================
\* A client with an empty session that calls the handlers of the purposes fs.
InitWith(fs) ==
    /\ now = StartTime
    /\ sess = EmptySession
    /\ db \in InitialDbs
    /\ last = [seq |-> 0, retry |-> FALSE, op |-> "start", subj |-> NoEmail, otp |-> NoCode,
               status |-> "none", ok |-> TRUE, msg |-> "", sent |-> NoCode,
               mailed |-> FALSE, isNew |-> FALSE, age |-> -1, act |-> "none"]
    /\ ver = [p \in Purposes |-> FALSE]
    /\ flows = fs
    /\ other = EmptySession
    /\ pend = [mine |-> NoPending, theirs |-> NoPending]

\* A logged-in client that uses two settings pages in one session, while the
\* store answers every read and the mailer delivers every mail.
SettingsFlowSets == {{"pwd", "twofa"}, {"twofa", "delete"}}

InitSettings == \E fs \in SettingsFlowSets : InitWith(fs)

\* Requests arrive at the start and, in every round, after the expiry of a
\* code issued at the start of the round.
SettingsInstants == {t \in Instants : \E k \in 0 .. (MaxCycles - 1) :
                        t - StartTime - k * Round = EXPIRY_WINDOW + 1}

NextSettings ==
    \/ \E t \in SettingsInstants : Tick(t)
    \/ \E i \in LoginInputs, p \in Passwords : login(i, p, TRUE)
    \/ login_by_email(TRUE)
    \/ logout
    \/ \E c \in Codes : change_password(c, TRUE, TRUE)
    \/ \E c \in Submissions : verify_otp_only(c)
    \/ \E p \in Passwords : verify_old_pwd(p, TRUE)
    \/ \E c \in Submissions \cup {Absent}, p \in Passwords :
            verify_pwd_final(c, p, TRUE)
    \/ \E k \in BOOLEAN : verify_pwd_final_update(k)
    \/ \E c \in Codes : toggle_2fa_otp(c, TRUE)
    \/ \E c \in Submissions : verify_2fa_otp(c)
    \/ \E st \in Statuses, p \in Passwords : toggle_2fa_final(st, p, TRUE)
    \/ \E k \in BOOLEAN : toggle_2fa_final_update(k)
    \/ \E c \in Codes : delete_account_request(c, TRUE)
    \/ \E c \in Submissions : verify_otp_only_del(c)
    \/ \E p \in Passwords : delete_account_verify(p, TRUE)
    \/ \E k \in BOOLEAN : delete_account_verify_select(k)
    \/ \E k \in BOOLEAN : delete_account_verify_delete(k)

SpecSettings == InitSettings /\ [][NextSettings]_vars

\* Two clients: each browser holds its own session cookie.  The requests of one
\* client are followed by requests of the other.
SwitchClient ==
    /\ sess' = other
    /\ other' = sess
    /\ pend' = [mine |-> pend.theirs, theirs |-> pend.mine]
    /\ UNCHANGED <<now, db, last, ver, flows>>

ClientFlowSets == {{"signup"}, {"reset"}}

InitClients == \E fs \in ClientFlowSets : InitWith(fs)

NextClients ==
    \/ \E t \in Instants : Tick(t)
    \/ SwitchClient
    \/ \E e \in Emails, c \in Codes, m, r \in BOOLEAN : api_send_otp(e, c, m, r)
    \/ \E e \in Emails, c \in Codes, m, r \in BOOLEAN : send_forgot_otp(e, c, m, r)

SpecClients == InitClients /\ [][NextClients]_vars

\* One client, two requests that overlap.  Flask's session is the cookie of
\* the request: a handler reads the cookie its request carried and its writes
\* reach the browser with the response, after the mail has been sent.
\* Overlap: the browser sends a request while another is in flight; both
\* carry the cookie as it is now.
Overlap ==
    /\ other # sess
    /\ pend.theirs = NoPending
    /\ other' = sess
    /\ UNCHANGED <<now, sess, db, last, ver, flows, pend>>

\* Resume: the server turns to the other request in flight.
Resume ==
    /\ other # sess
    /\ sess' = other
    /\ other' = sess
    /\ pend' = [mine |-> pend.theirs, theirs |-> pend.mine]
    /\ UNCHANGED <<now, db, last, ver, flows>>

OverlapFlowSets == {{"signup"}, {"delete"}}

InitOverlap == \E fs \in OverlapFlowSets : InitWith(fs)

NextOverlap ==
    \/ \E t \in Instants : Tick(t)
    \/ Overlap
    \/ Resume
    \/ \E i \in LoginInputs, p \in Passwords, n \in BOOLEAN : login(i, p, n)
    \/ \E r \in BOOLEAN : login_by_email(r)
    \/ \E e \in Emails, c \in Codes, m, r \in BOOLEAN : api_send_otp(e, c, m, r)
    \/ \E c \in Codes, m \in BOOLEAN : delete_account_request(c, m)

SpecOverlap == InitOverlap /\ [][NextOverlap]_vars

\* A client that submits the code with blanks around it, as pasted from the
\* mail: the "otp" field of the JSON body is any string.
Pad(c) == " " \o c \o " "
PaddedSubmissions == {Pad(c) : c \in Codes}

PaddedFlowSets == {{"signup"}, {"reset"}}

InitPadded == \E fs \in PaddedFlowSets : InitWith(fs)

NextPadded ==
    \/ \E t \in Instants : Tick(t)
    \/ \E e \in Emails, c \in Codes, m, r \in BOOLEAN : api_send_otp(e, c, m, r)
    \/ \E u \in Submissions \cup PaddedSubmissions : api_verify_otp(u)
    \/ \E e \in Emails, c \in Codes, m, r \in BOOLEAN : send_forgot_otp(e, c, m, r)
    \/ \E u \in Submissions \cup PaddedSubmissions : verify_forgot_otp(u)

SpecPadded == InitPadded /\ [][NextPadded]_vars

\* One client, two accounts.  login stores the row under session["user"] and
\* leaves every other key of the session as it was, so the client that was
\* logged in to a@x.com can log in to b@x.com without a logout in between.
\* Here both accounts exist, and codes are requested and verified only while
\* the session is not b@x.com's: b@x.com asks for no code and verifies nothing.
ReloginDbs ==
    {[users |-> <<[id |-> 1, email |-> "a@x.com", username |-> "user_a",
                   password |-> "pw1", is_2fa_enabled |-> "True"],
                  [id |-> 2, email |-> "b@x.com", username |-> "user_b",
                   password |-> "pw2", is_2fa_enabled |-> "True"]>>,
      users_id_seq |-> 2]}

ReloginFlowSets == {{"pwd"}, {"twofa"}, {"delete"}}

InitRelogin ==
    /\ now = StartTime
    /\ sess = EmptySession
    /\ db \in ReloginDbs
    /\ last = [seq |-> 0, retry |-> FALSE, op |-> "start", subj |-> NoEmail, otp |-> NoCode,
               status |-> "none", ok |-> TRUE, msg |-> "", sent |-> NoCode,
               mailed |-> FALSE, isNew |-> FALSE, age |-> -1, act |-> "none"]
    /\ ver = [p \in Purposes |-> FALSE]
    /\ flows \in ReloginFlowSets
    /\ other = EmptySession
    /\ pend = [mine |-> NoPending, theirs |-> NoPending]

NotAsB == sess.user # "b@x.com"

NextRelogin ==
    \/ \E t \in Instants : Tick(t)
    \/ \E i \in LoginInputs \cup Emails, p \in Passwords, n \in BOOLEAN :
            login(i, p, n)
    \/ \E r \in BOOLEAN : login_by_email(r)
    \/ NotAsB /\ \E c \in Codes, m, r \in BOOLEAN : change_password(c, m, r)
    \/ NotAsB /\ \E c \in Submissions : verify_otp_only(c)
    \/ \E c \in Submissions \cup {Absent}, p \in Passwords, r \in BOOLEAN :
            verify_pwd_final(c, p, r)
    \/ \E k \in BOOLEAN : verify_pwd_final_update(k)
    \/ NotAsB /\ \E c \in Codes, m \in BOOLEAN : toggle_2fa_otp(c, m)
    \/ NotAsB /\ \E c \in Submissions : verify_2fa_otp(c)
    \/ \E st \in Statuses, p \in Passwords, r \in BOOLEAN :
            toggle_2fa_final(st, p, r)
    \/ \E k \in BOOLEAN : toggle_2fa_final_update(k)
    \/ NotAsB /\ \E c \in Codes, m \in BOOLEAN : delete_account_request(c, m)
    \/ NotAsB /\ \E c \in Submissions : verify_otp_only_del(c)
    \/ \E p \in Passwords, r \in BOOLEAN : delete_account_verify(p, r)
    \/ \E k \in BOOLEAN : delete_account_verify_select(k)
    \/ \E k \in BOOLEAN : delete_account_verify_delete(k)

SpecRelogin == InitRelogin /\ [][NextRelogin]_vars

\* Two browsers and the requests that wait: while a request of one client
\* waits between two of its database calls, the requests of the other client
\* are served.  Both clients use the account deletion page, and with it the
\* signup page or the password page.  The mails are delivered, the clock
\* stands still, the store fails only in delete_account_verify, and the
\* clients log in with the address a@x.com and, once its account is deleted,
\* sign up with it again as user_b, more than once and with either password:
\* the address then has two rows.
BrowsersFlowSets == {{"signup", "delete"}, {"pwd", "delete"}}

InitBrowsers == \E fs \in BrowsersFlowSets : InitWith(fs)

NextBrowsers ==
    \/ SwitchClient
    \/ \E p \in Passwords : login("a@x.com", p, TRUE)
    \/ login_by_email(TRUE)
    \/ api_send_otp("a@x.com", "111111", TRUE, TRUE)
    \/ /\ sess.temp_email # NoEmail
       /\ db.users_id_seq < MaxUserId
       /\ \E p \in Passwords : register("user_b", p, TRUE)
    \/ register_login(TRUE)
    \/ \E p \in Passwords : verify_old_pwd(p, TRUE)
    \/ \E p \in Passwords : verify_pwd_final(Absent, p, TRUE)
    \/ verify_pwd_final_update(TRUE)
    \/ delete_account_request("111111", TRUE)
    \/ verify_otp_only_del("111111")
    \/ \E p \in Passwords, r \in BOOLEAN : delete_account_verify(p, r)
    \/ \E k \in BOOLEAN : delete_account_verify_select(k)
    \/ \E k \in BOOLEAN : delete_account_verify_delete(k)

SpecBrowsers == InitBrowsers /\ [][NextBrowsers]_vars

\* One client that calls the handlers of two purposes in one session, every
\* pair of purposes, before and after the expiry of the codes issued at the
\* start.  The store answers and the mailer delivers; the client logs in with
\* the address a@x.com and signs up as user_b, once for an address.
PurposesFlowSets == {{p, q} : p, q \in Purposes} \ {{p} : p \in Purposes}

InitPurposes == \E fs \in PurposesFlowSets : InitWith(fs)

PurposesInstants == {StartTime + EXPIRY_WINDOW + 1}

\* The client registers an address it has asked a code for and that has no
\* account.
SignsUpOnce == sess.temp_email # NoEmail /\ ~check_email_exists(sess.temp_email)

NextPurposes ==
    \/ \E t \in PurposesInstants : Tick(t)
    \/ \E p \in Passwords : login("a@x.com", p, TRUE)
    \/ login_by_email(TRUE)
    \/ logout
    \/ \E e \in Emails, c \in Codes : api_send_otp(e, c, TRUE, TRUE)
    \/ \E c \in Submissions : api_verify_otp(c)
    \/ /\ SignsUpOnce
       /\ db.users_id_seq < MaxUserId
       /\ register("user_b", "pw2", TRUE)
    \/ register_login(TRUE)
    \/ \E e \in Emails, c \in Codes : send_forgot_otp(e, c, TRUE, TRUE)
    \/ \E c \in Submissions : verify_forgot_otp(c)
    \/ \E p \in Passwords : reset_password(p, TRUE)
    \/ \E c \in Codes : change_password(c, TRUE, TRUE)
    \/ \E c \in Submissions : verify_otp_only(c)
    \/ \E p \in Passwords : verify_old_pwd(p, TRUE)
    \/ \E c \in Submissions \cup {Absent}, p \in Passwords :
            verify_pwd_final(c, p, TRUE)
    \/ verify_pwd_final_update(TRUE)
    \/ \E c \in Codes : toggle_2fa_otp(c, TRUE)
    \/ \E c \in Submissions : verify_2fa_otp(c)
    \/ \E st \in {"True", "False"}, p \in Passwords : toggle_2fa_final(st, p, TRUE)
    \/ toggle_2fa_final_update(TRUE)
    \/ \E c \in Codes : delete_account_request(c, TRUE)
    \/ \E c \in Submissions : verify_otp_only_del(c)
    \/ \E p \in Passwords : delete_account_verify(p, TRUE)
    \/ delete_account_verify_select(TRUE)
    \/ delete_account_verify_delete(TRUE)

SpecPurposes == InitPurposes /\ [][NextPurposes]_vars

\* ======================================================================
\* The claims.  A step is a request when seq flips; the clock stands still
\* during a request.
\* ======================================================================
IssueOps == {"api_send_otp", "send_forgot_otp", "change_password",
             "toggle_2fa_otp", "delete_account_request"}
VerifyOps == {"api_verify_otp", "verify_forgot_otp", "verify_otp_only",
              "verify_2fa_otp", "verify_otp_only_del"}
ExecOps == {"register", "reset_password", "verify_pwd_final",
            "toggle_2fa_final", "delete_account_verify"}

PurposeOf(op) ==
    CASE op \in {"api_send_otp", "api_verify_otp", "register"} -> "signup"
      [] op \in {"send_forgot_otp", "verify_forgot_otp", "reset_password"} -> "reset"
      [] op \in {"change_password", "verify_otp_only", "verify_old_pwd",
                 "verify_pwd_final"} -> "pwd"
      [] op \in {"toggle_2fa_otp", "verify_2fa_otp", "toggle_2fa_final"} -> "twofa"
      [] op \in {"delete_account_request", "verify_otp_only_del",
                 "delete_account_verify"} -> "delete"
      [] OTHER -> "none"

\* The code and the issue time session s holds for purpose p.
OtpIn(s, p) ==
    CASE p = "signup" -> s.current_otp
      [] p = "reset" -> s.forgot_otp
      [] p = "pwd" -> s.pwd_change_otp
      [] p = "twofa" -> s.two_fa_otp
      [] p = "delete" -> s.delete_otp
      [] OTHER -> NoCode

TimeIn(s, p) ==
    CASE p = "signup" -> s.current_otp_time
      [] p = "reset" -> s.forgot_otp_time
      [] p = "pwd" -> s.pwd_otp_time
      [] p = "twofa" -> s.two_fa_otp_time
      [] p = "delete" -> s.delete_otp_time
      [] OTHER -> NoTime

\* The code session s holds for purpose p was issued for subject e.  The
\* slots of the three settings purposes record no subject.
ForSubject(s, p, e) ==
    CASE p = "signup" -> s.current_email = e
      [] p = "reset" -> s.forgot_email = e
      [] OTHER -> TRUE

IsRequest == last'.seq # last.seq

\* The step is an issuance request that passed its handler's precondition
\* and reached the mailer.
Issues(p) == IsRequest /\ last'.op \in IssueOps /\ PurposeOf(last'.op) = p
             /\ last'.sent # NoCode

\* The step is a verify request whose handler read the submitted code.
Verifies(p) == IsRequest /\ last'.op \in VerifyOps /\ PurposeOf(last'.op) = p
               /\ last'.otp # NoCode

\* The age, before the step, of the code stored for p.
Age(p) == now - TimeIn(sess, p)

\* An execute request of a gated purpose; toggle_2fa_final asked to enable
\* two-factor is not one.
GatedExec(l) == l.op \in ExecOps /\ (l.op = "toggle_2fa_final" => l.status # "True")

\* ---------------------------------------------------------------------- C1
\* C1: the gated action (create_user, update_user_password,
\* update_user_2fa_status, delete_user_by_email) is carried out only if a
\* verification for the same purpose succeeded earlier in the session (or in
\* this very request, for the code check of verify_pwd_final) and has not been
\* consumed since.
C1_ActionOnlyAfterVerification ==
    [][(IsRequest /\ GatedExec(last') /\ last'.act # "none" /\ last'.ok)
        => \/ ver[PurposeOf(last'.op)]
           \/ /\ last'.op = "verify_pwd_final"
              /\ last'.otp # NoCode
              /\ last'.otp = sess.pwd_change_otp
              /\ Age("pwd") <= EXPIRY_WINDOW]_vars

\* ---------------------------------------------------------------------- C2
\* C2: an execute request that directly follows a successful execute request
\* of the same purpose (so with no issuance and no verification in between)
\* fails and does not invoke the gated action again.
C2_NoSecondExecute ==
    [][(IsRequest /\ GatedExec(last) /\ last.ok
        /\ GatedExec(last') /\ last'.op = last.op)
        => (~last'.ok /\ last'.act = "none")]_vars

\* ---------------------------------------------------------------------- C3
\* C3: an issuance request that finds a code stored for the same subject and
\* younger than 60 seconds hands that code to the mailer and generates none
\* (code and issue time stay); at 60 seconds or more it generates one.
C3_ResendWithinWindow ==
    [][\A p \in Purposes :
        (Issues(p) /\ OtpIn(sess, p) # NoCode /\ ForSubject(sess, p, last'.subj))
        => IF Age(p) < 60
           THEN /\ last'.sent = OtpIn(sess, p)
                /\ ~last'.isNew
                /\ OtpIn(sess', p) = OtpIn(sess, p)
                /\ TimeIn(sess', p) = TimeIn(sess, p)
           ELSE /\ last'.isNew
                /\ TimeIn(sess', p) = now]_vars

\* A code of age 59 was resent.
C3_Witness ==
    /\ last.op \in IssueOps
    /\ last.sent # NoCode
    /\ ~last.isNew
    /\ last.age = 59
    /\ last.sent = OtpIn(sess, PurposeOf(last.op))
    /\ now - TimeIn(sess, PurposeOf(last.op)) = 59

\* ---------------------------------------------------------------------- C4
\* C4: an issuance request that finds no code stored, or a stored code 60
\* seconds old or older, generates a code, stores it with issuedAt = now in
\* place of the stored one, and from then on a submitted code verifies if and
\* only if it is the new code.
C4_IssueFresh ==
    [][\A p \in Purposes :
        (Issues(p) /\ (OtpIn(sess, p) = NoCode \/ Age(p) >= 60))
        => /\ last'.isNew
           /\ last'.sent \in Codes
           /\ OtpIn(sess', p) = last'.sent
           /\ TimeIn(sess', p) = now
           /\ \A c \in Submissions :
                (VerifyMsg(OtpIn(sess', p), TimeIn(sess', p), c) = "ok")
                <=> (c = last'.sent)]_vars

\* A code exactly 60 seconds old was replaced by a different one.
C4_Witness ==
    /\ last.op \in IssueOps
    /\ last.isNew
    /\ last.age = 60
    /\ OtpIn(sess, PurposeOf(last.op)) = last.sent
    /\ TimeIn(sess, PurposeOf(last.op)) = now

\* ---------------------------------------------------------------------- C5
\* C5 as claimed: an issuance request made more than 60 and less than 600
\* seconds after the last issuance, with no successful verify in between,
\* resends the stored code and generates none.
C5_ReuseUntilExpiry ==
    [][\A p \in Purposes :
        (Issues(p) /\ OtpIn(sess, p) # NoCode /\ ForSubject(sess, p, last'.subj)
         /\ ~ver[p] /\ Age(p) > 60 /\ Age(p) < 600)
        => (~last'.isNew /\ last'.sent = OtpIn(sess, p))]_vars

\* C5 as amended: an issuance request made 60 seconds or more and less than
\* 600 seconds after the last issuance generates a new code and restarts its
\* clock, whether or not a verify came in between.
C5_RegenerateAfterResendWindow ==
    [][\A p \in Purposes :
        (Issues(p) /\ OtpIn(sess, p) # NoCode /\ Age(p) >= 60 /\ Age(p) < 600)
        => /\ last'.isNew
           /\ OtpIn(sess', p) = last'.sent
           /\ TimeIn(sess', p) = now
           /\ TimeIn(sess', p) # TimeIn(sess, p)]_vars

\* A code between the two windows (older than 60, younger than 600) was
\* replaced.
C5_Witness ==
    /\ last.op \in IssueOps
    /\ last.isNew
    /\ last.age > 60
    /\ last.age < 600
    /\ TimeIn(sess, PurposeOf(last.op)) = now

\* ---------------------------------------------------------------------- C6
\* C6: a verify request carrying the stored code more than 600 seconds after
\* it was issued answers "OTP has expired" and changes nothing; the code check
\* inside verify_pwd_final fails then too, and no action is invoked.
C6_ExpiredCodeRejected ==
    [][/\ \A p \in Purposes :
            (Verifies(p) /\ last'.otp = OtpIn(sess, p) /\ Age(p) > 600)
            => /\ ~last'.ok
               /\ last'.msg = "OTP has expired"
               /\ last'.act = "none"
               /\ sess' = sess /\ db' = db /\ ver' = ver
       /\ (IsRequest /\ last'.op = "verify_pwd_final" /\ last'.otp # NoCode
           /\ last'.otp = sess.pwd_change_otp /\ Age("pwd") > 600)
          => /\ ~last'.ok
             /\ last'.act = "none"
             /\ sess' = sess /\ db' = db /\ ver' = ver]_vars

\* The stored code was submitted 601 seconds after its issue and refused.
C6_Witness ==
    /\ last.op \in VerifyOps
    /\ last.otp # NoCode
    /\ last.otp = OtpIn(sess, PurposeOf(last.op))
    /\ last.age = 601
    /\ last.msg = "OTP has expired"

\* ---------------------------------------------------------------------- C7
\* C7 as claimed: a verify request carrying the stored code exactly 600
\* seconds after it was issued fails as expired.
C7_ExpiredAtBoundary ==
    [][\A p \in Purposes :
        (Verifies(p) /\ last'.otp = OtpIn(sess, p) /\ Age(p) = 600)
        => (~last'.ok /\ last'.msg = "OTP has expired")]_vars

\* C7 as amended: the expiry boundary is exclusive.  A verify request carrying
\* the stored code exactly 600 seconds after it was issued succeeds, and the
\* code check of verify_pwd_final passes then too; a code fails as expired
\* only when it is more than 600 seconds old.
C7_BoundaryExclusive ==
    [][/\ \A p \in Purposes :
            (Verifies(p) /\ last'.otp = OtpIn(sess, p) /\ Age(p) = 600)
            => (last'.ok /\ last'.msg = "ok" /\ ver'[p])
       /\ (IsRequest /\ last'.op = "verify_pwd_final" /\ last'.otp # NoCode
           /\ last'.otp = sess.pwd_change_otp /\ Age("pwd") = 600)
          => last'.msg # "Verification failed or timed out"]_vars

\* The stored code was submitted exactly 600 seconds after its issue and
\* accepted.
C7_Witness ==
    /\ last.op \in VerifyOps
    /\ last.otp # NoCode
    /\ last.otp = OtpIn(sess, PurposeOf(last.op))
    /\ last.age = 600
    /\ last.ok

\* ---------------------------------------------------------------------- C8
\* C8: a verify request with a code other than the stored one fails and
\* changes nothing (same code, same issuedAt, nothing verified); if the stored
\* code is less than 600 seconds old, it still verifies right afterwards.
C8_MismatchKeepsSession ==
    [][\A p \in Purposes :
        (Verifies(p) /\ OtpIn(sess, p) # NoCode /\ last'.otp # OtpIn(sess, p))
        => /\ ~last'.ok
           /\ last'.msg = "Invalid OTP"
           /\ sess' = sess /\ db' = db /\ ver' = ver
           /\ (Age(p) < 600
               => VerifyMsg(OtpIn(sess', p), TimeIn(sess', p), OtpIn(sess, p)) = "ok")]_vars

\* A wrong code was submitted against a stored code that has not expired.
C8_Witness ==
    /\ last.op \in VerifyOps
    /\ last.otp # NoCode
    /\ OtpIn(sess, PurposeOf(last.op)) # NoCode
    /\ last.otp # OtpIn(sess, PurposeOf(last.op))
    /\ last.age >= 0
    /\ last.age < 600
    /\ last.msg = "Invalid OTP"

\* ---------------------------------------------------------------------- C9
\* C9: a verify request that repeats a successful one with the same code,
\* less than 600 seconds after the code was issued, succeeds again and leaves
\* the session, the verified state and the accounts as they were.
C9_VerifyIdempotent ==
    [][\A p \in Purposes :
        (Verifies(p) /\ last.op = last'.op /\ last.ok /\ last.otp = last'.otp
         /\ Age(p) < 600)
        => /\ last'.ok
           /\ sess' = sess /\ db' = db /\ ver' = ver]_vars

\* The same code was verified twice in a row.
C9_Witness ==
    /\ last.op \in VerifyOps
    /\ last.retry
    /\ last.ok
    /\ last.age < 600
    /\ ver[PurposeOf(last.op)]

\* --------------------------------------------------------------------- C10
\* C10: when the mailer fails, the issuance request reports failure and the
\* session holds the code it tried to send, with issuedAt as the issuance set
\* or left it; an issuance request for the same subject that follows it less
\* than 60 seconds after issuedAt hands the same code to the mailer.
C10_DeliveryFailureKeepsCode ==
    [][\A p \in Purposes :
        /\ (Issues(p) /\ ~last'.mailed)
           => /\ ~last'.ok
              /\ OtpIn(sess', p) = last'.sent
              /\ TimeIn(sess', p) = (IF last'.isNew THEN now ELSE TimeIn(sess, p))
        /\ (Issues(p) /\ last.op = last'.op /\ last.sent # NoCode /\ ~last.mailed
            /\ last.subj = last'.subj /\ Age(p) < 60)
           => /\ last'.sent = last.sent
              /\ ~last'.isNew]_vars

\* An issuance whose mail failed was retried after 59 seconds and tried the
\* same code.
C10_Witness ==
    /\ last.op \in IssueOps
    /\ last.retry
    /\ last.sent # NoCode
    /\ ~last.isNew
    /\ last.age = 59

\* --------------------------------------------------------------------- C11
\* An execute request whose handler tests a verified state before it calls the
\* store: delete_account_verify, verify_pwd_final without an "otp" field, and
\* toggle_2fa_final asked for the boolean false.
GatedByFlag(l) ==
    \/ l.op = "delete_account_verify"
    \/ l.op = "verify_pwd_final" /\ l.otp = NoCode
    \/ l.op = "toggle_2fa_final" /\ l.status = "False"

\* An execute request whose handler tests the stored code itself:
\* verify_pwd_final with an "otp" field, which does not read the verified
\* state.
GatedByCode(l) == l.op = "verify_pwd_final" /\ l.otp # NoCode

\* An execute request whose handler tests the one or the other.
Gated(l) == GatedByFlag(l) \/ GatedByCode(l)

\* C11: when the gated action itself fails (the store reports failure), the
\* verified session is already consumed: the same execute request repeated
\* right after it, with no issuance and no verification in between, is
\* rejected and invokes nothing.
C11_FailedExecuteConsumes ==
    [][(IsRequest /\ Gated(last) /\ last.act # "none" /\ ~last.ok
        /\ Gated(last') /\ last'.op = last.op)
        => (~last'.ok /\ last'.act = "none")]_vars

\* --------------------------------------------------------------------- C12
\* C12: once the gated action has completed successfully on a verified
\* session, no submitted code verifies for that purpose any more, and the
\* session holds no code that a following issuance request could resend.
C12_ConsumedCodeDead ==
    [][\A p \in Purposes :
        (IsRequest /\ GatedExec(last') /\ PurposeOf(last'.op) = p
         /\ last'.ok /\ last'.act # "none" /\ ver[p])
        => /\ \A c \in Submissions :
                VerifyMsg(OtpIn(sess', p), TimeIn(sess', p), c) # "ok"
           /\ ~Resend(OtpIn(sess', p), TimeIn(sess', p))]_vars

\* --------------------------------------------------------------------- C13
\* The verified state session s holds for purpose p (the signup and reset
\* handlers write none).
FlagIn(s, p) ==
    CASE p = "pwd" -> s.pwd_verify_success
      [] p = "twofa" -> s.two_fa_verify_success
      [] p = "delete" -> s.del_verify_success
      [] OTHER -> FALSE

\* The step is a request of purpose p that leaves the code, the issue time and
\* the verified state of every other purpose as they were.
Isolated(p) ==
    \A q \in Purposes \ {p} :
        /\ OtpIn(sess', q) = OtpIn(sess, q)
        /\ TimeIn(sess', q) = TimeIn(sess, q)
        /\ FlagIn(sess', q) = FlagIn(sess, q)
        /\ ver'[q] = ver[q]

\* A verify request of purpose p succeeds only with the code stored for p.
OwnCodeOnly(p) == (Verifies(p) /\ last'.ok) => last'.otp = OtpIn(sess, p)

\* C13 as claimed: no issue, verify or execute request of one purpose changes
\* the code, issue time or verified state of another purpose, and a code
\* verifies only under the purpose it is stored for.
C13_PurposesIsolated ==
    [][\A p \in Purposes :
        (IsRequest /\ PurposeOf(last'.op) = p)
        => (Isolated(p) /\ OwnCodeOnly(p))]_vars

\* C13 as amended: the same, except for the delete_account_verify request that
\* deletes the account: it clears the whole session, every purpose included.
C13_IsolatedButDelete ==
    [][(IsRequest /\ PurposeOf(last'.op) \in Purposes)
        => LET p == PurposeOf(last'.op) IN
           /\ OwnCodeOnly(p)
           /\ IF last'.op = "delete_account_verify" /\ last'.ok
              THEN sess' = EmptySession
              ELSE Isolated(p)]_vars

\* A code of one purpose was verified and spent while another purpose holds a
\* code of its own, which is still there.
C13_Witness ==
    /\ last.op = "toggle_2fa_final"
    /\ last.status = "False"
    /\ last.ok
    /\ sess.two_fa_otp = NoCode
    /\ \/ sess.pwd_change_otp # NoCode
       \/ sess.delete_otp # NoCode /\ sess.del_verify_success

\* --------------------------------------------------------------------- C14
\* The subject session s holds a code of purpose p for.
SubjectIn(s, p) ==
    CASE p = "signup" -> s.current_email
      [] p = "reset" -> s.forgot_email
      [] OTHER -> s.user

\* Session s holds a live code of purpose p: one that a verify request made
\* now would accept.
Live(s, p) == VerifyMsg(OtpIn(s, p), TimeIn(s, p), OtpIn(s, p)) = "ok"

\* C14: there are never two live codes for one subject and one purpose, also
\* when two clients ask for a code for the same subject and purpose.
C14_OneLiveCode ==
    \A p \in Purposes :
        ~ /\ Live(sess, p)
          /\ Live(other, p)
          /\ SubjectIn(sess, p) = SubjectIn(other, p)
          /\ OtpIn(sess, p) # OtpIn(other, p)

\* --------------------------------------------------------------------- C15
\* C15: of two issuance requests for one subject and purpose that overlap,
\* both delivered and less than 60 seconds apart, the second hands the mailer
\* the code the first one generated or resent.
C15_OverlapSameCode ==
    [][\A p \in Purposes :
        (Issues(p) /\ last.op = last'.op /\ last.subj = last'.subj
         /\ last.mailed /\ last'.mailed
         /\ last.sent = OtpIn(other, p)
         /\ now - TimeIn(other, p) < 60)
        => last'.sent = last.sent]_vars

\* --------------------------------------------------------------------- C16
\* C16: reset_password changes a password only if verify_forgot_otp has
\* succeeded in the session since the code was issued; directly after a
\* send_forgot_otp that generated a code (for this or another e-mail) it
\* changes none.
C16_ResetNeedsVerify ==
    [][(IsRequest /\ last'.op = "reset_password")
        => /\ db' # db => ver["reset"]
           /\ (last.op = "send_forgot_otp" /\ last.isNew) => db' = db]_vars

\* --------------------------------------------------------------------- C17
\* C17: register creates an account (the step of its INSERT) only if
\* api_verify_otp has succeeded in the session; directly after an api_send_otp
\* that generated a code (for this or another e-mail) it creates none.
C17_RegisterNeedsVerify ==
    [][(pend.mine = NoPending /\ pend'.mine.op = "register")
        => /\ db' # db => ver["signup"]
           /\ (last.op = "api_send_otp" /\ last.isNew) => db' = db]_vars

\* --------------------------------------------------------------------- C18
\* In the table d the address e has an account, and two-factor is enabled,
\* or is not enabled, in every row of e.
TwoFactorOn(d, e) ==
    /\ RowsByEmailIn(d, e) # {}
    /\ \A u \in RowsByEmailIn(d, e) : Truthy2fa(u.is_2fa_enabled)

TwoFactorOff(d, e) == \A u \in RowsByEmailIn(d, e) : ~Truthy2fa(u.is_2fa_enabled)

\* C18: while the account has two-factor enabled, verify_pwd_final changes the
\* password only on a request that carries the stored, unexpired code.
C18_TwoFactorNeedsCode ==
    [][(IsRequest /\ last'.op = "verify_pwd_final" /\ db' # db
        /\ TwoFactorOn(db, last'.subj))
        => /\ last'.otp # NoCode
           /\ last'.otp = sess.pwd_change_otp
           /\ Age("pwd") <= EXPIRY_WINDOW]_vars

\* --------------------------------------------------------------------- C19
\* C19: for an account with two-factor not enabled, change_password sends no
\* code, and verify_pwd_final changes the password only if verify_old_pwd
\* succeeded in the session.
C19_NoTwoFactorNeedsPassword ==
    [][/\ (IsRequest /\ last'.op = "change_password" /\ last'.subj # NoEmail
           /\ RowsByEmail(last'.subj) # {}
           /\ TwoFactorOff(db, last'.subj))
          => (last'.sent = NoCode /\ sess' = sess)
       /\ (IsRequest /\ last'.op = "verify_pwd_final" /\ db' # db
           /\ TwoFactorOff(db, last'.subj))
          => sess.pwd_verify_success]_vars

\* --------------------------------------------------------------------- C20
\* C20: whatever the status field, a toggle_2fa_final request that succeeds
\* and leaves the account with two-factor not enabled had the correct password
\* and followed a successful verify_2fa_otp in the session.
C20_DisableNeedsCode ==
    [][(IsRequest /\ last'.op = "toggle_2fa_final" /\ last'.ok
        /\ TwoFactorOff(db', last'.subj))
        => (ver["twofa"] /\ sess.two_fa_verify_success)]_vars

\* --------------------------------------------------------------------- C21
\* The step takes the row with id i out of the users table.
RowGoes(i) == db.users[i] # NoUser /\ db'.users[i] = NoUser

\* C21: delete_account_verify deletes the account only if verify_otp_only_del
\* succeeded earlier in the session and the handler found the password of the
\* request to be the account's; without the code verification it answers "OTP
\* verification incomplete" whatever the password; with it and a wrong
\* password it answers "Incorrect password", deletes nothing and leaves the
\* verified state set.  In steps: the check of the handler writes nothing and
\* goes on to delete_user_by_email only with the verified state set and the
\* right password; only verify_otp_only_del sets the verified state; a
\* request is in delete_user_by_email only after that check; and a row goes
\* only at the end of such a request, the row of the session's own address.
C21_DeleteTwoGates ==
    [][/\ \A pw \in Passwords, r \in BOOLEAN :
            (delete_account_verify(pw, r) /\ sess.user # NoEmail)
            => LET right == \E u \in RowsByEmail(sess.user) : u.password = pw
               IN /\ db' = db
                  /\ pend'.mine # NoPending
                     => sess.del_verify_success /\ right
                  /\ ~sess.del_verify_success
                     => /\ last'.msg = "OTP verification incomplete"
                        /\ sess' = sess /\ pend' = pend
                  /\ (sess.del_verify_success /\ ~right)
                     => /\ last'.msg = "Incorrect password"
                        /\ sess'.del_verify_success
                        /\ sess' = sess /\ pend' = pend
       /\ (IsRequest /\ ~sess.del_verify_success /\ sess'.del_verify_success)
            => last'.op = "verify_otp_only_del" /\ last'.ok
       /\ (pend'.mine # pend.mine /\ pend'.mine.op = "delete_account_verify")
            => \/ pend'.mine = pend.theirs
               \/ \E pw \in Passwords, r \in BOOLEAN : delete_account_verify(pw, r)
       /\ (pend'.mine # pend.mine /\ pend'.mine.op = "delete_user_by_email")
            => \/ pend'.mine = pend.theirs
               \/ pend.mine.op = "delete_account_verify"
       /\ pend'.mine.op \in {"delete_account_verify", "delete_user_by_email"}
            => sess'.del_verify_success /\ sess'.user = pend'.mine.email
       /\ \A i \in UserIds(db) :
            RowGoes(i)
            => /\ pend.mine.op = "delete_user_by_email"
               /\ db.users[i].email = sess.user
               /\ sess.del_verify_success
               /\ last'.op = "delete_account_verify" /\ last'.ok]_vars

\* One browser's request has passed both gates and is in delete_user_by_email
\* while the other browser, with the code verified, was refused for a wrong
\* password and keeps the verified state.
C21_Witness ==
    /\ last.op = "delete_account_verify"
    /\ last.msg = "Incorrect password"
    /\ other.del_verify_success
    /\ other.user # NoEmail
    /\ pend.mine.op = "delete_user_by_email"
    /\ sess.del_verify_success

\* --------------------------------------------------------------------- C22
\* C22: directly after an issuance request that generated a new code for the
\* two-factor or the deletion purpose, the execute request of that purpose
\* (toggle_2fa_final to disable, delete_account_verify) does not succeed: the
\* verification obtained with the earlier code is void.
C22_ReissueUnverifies ==
    [][(IsRequest /\ last.op \in {"toggle_2fa_otp", "delete_account_request"}
        /\ last.isNew /\ last.sent # NoCode
        /\ last'.op \in {"toggle_2fa_final", "delete_account_verify"}
        /\ GatedByFlag(last') /\ PurposeOf(last'.op) = PurposeOf(last.op))
        => ~(last'.ok /\ last'.act # "none")]_vars

\* --------------------------------------------------------------------- C23
\* C23: when the code of a purpose is more than 600 seconds old, a
\* toggle_2fa_final (disable) or delete_account_verify request does not
\* succeed, even if the code was verified before it expired.
C23_VerifiedStateExpires ==
    [][(IsRequest /\ last'.op \in {"toggle_2fa_final", "delete_account_verify"}
        /\ GatedByFlag(last')
        /\ OtpIn(sess, PurposeOf(last'.op)) # NoCode
        /\ now - TimeIn(sess, PurposeOf(last'.op)) > 600)
        => ~(last'.ok /\ last'.act # "none")]_vars

\* --------------------------------------------------------------------- C24
\* C24: a verify request made when no code is stored gets an answer other
\* than that of a mismatch, and a verify request made when the stored code is
\* more than 600 seconds old is answered "OTP has expired" whether or not the
\* submitted code matches.
C24_ErrorPrecedence ==
    [][\A p \in Purposes :
        Verifies(p)
        => /\ OtpIn(sess, p) = NoCode => last'.msg # "Invalid OTP"
           /\ (OtpIn(sess, p) # NoCode /\ Age(p) > 600)
              => last'.msg = "OTP has expired"]_vars

\* --------------------------------------------------------------------- C25
\* The request sent the change notification: verify_pwd_final calls
\* send_password_update_email in its success branch only.
send_password_update_email(l) == l.op = "verify_pwd_final" /\ l.ok

\* C25: a verify_pwd_final request whose new password is the account's
\* current password is answered with an error, updates nothing and sends no
\* notification.
C25_SamePasswordRejected ==
    [][(/\ IsRequest
        /\ last'.op = "verify_pwd_final"
        /\ pend.mine.op = "verify_pwd_final"
        /\ RowsByEmail(pend.mine.email) # {}
        /\ \A u \in RowsByEmail(pend.mine.email) : u.password = pend.mine.password)
       => /\ ~last'.ok
          /\ last'.act = "none"
          /\ ~send_password_update_email(last')]_vars

\* --------------------------------------------------------------------- C26
\* C26: an issuance whose precondition fails (signup for a registered e-mail,
\* reset for an unregistered one) generates and delivers no code and leaves
\* the session as it was.
C26_FailedIssuanceInert ==
    [][(/\ IsRequest
        /\ \/ last'.op = "api_send_otp" /\ RowsByEmail(last'.subj) # {}
           \/ last'.op = "send_forgot_otp" /\ RowsByEmail(last'.subj) = {})
       => /\ ~last'.ok
          /\ last'.sent = NoCode /\ ~last'.isNew /\ ~last'.mailed
          /\ sess' = sess /\ db' = db /\ ver' = ver]_vars

\* A signup issuance for a registered address was refused while the session
\* held a live code for another address.
C26_Witness ==
    /\ last.op = "api_send_otp"
    /\ last.msg = "Email already registered"
    /\ RowsByEmail(last.subj) # {}
    /\ sess.current_otp # NoCode
    /\ sess.current_email # last.subj

\* --------------------------------------------------------------------- C27
\* C27: an issuance that reuses the stored code leaves the code and its issue
\* time as they were, so the moment of expiry does not move.
C27_ResendKeepsIssueTime ==
    [][\A p \in Purposes :
        (Issues(p) /\ ~last'.isNew)
        => /\ OtpIn(sess', p) = OtpIn(sess, p)
           /\ last'.sent = OtpIn(sess, p)
           /\ TimeIn(sess', p) = TimeIn(sess, p)
           /\ TimeIn(sess', p) + EXPIRY_WINDOW = now - last'.age + EXPIRY_WINDOW]_vars

\* A code was sent again some seconds after its issue and still carries the
\* issue time of the first sending.
C27_Witness ==
    /\ last.op \in IssueOps
    /\ last.ok /\ ~last.isNew
    /\ last.age > 0
    /\ TimeIn(sess, PurposeOf(last.op)) = now - last.age

\* --------------------------------------------------------------------- C28
\* C28: the comparison ignores blanks around the submitted code: a verify
\* request that submits the stored, unexpired code with blanks around it
\* succeeds as the bare code does.
C28_PaddingIgnored ==
    [][\A p \in {"signup", "reset"} :
        (/\ Verifies(p)
         /\ \E c \in Codes : last'.otp = Pad(c) /\ OtpIn(sess, p) = c
         /\ Age(p) < EXPIRY_WINDOW)
        => last'.ok]_vars

\* --------------------------------------------------------------------- C29
\* C29: the verified state is bound to the account it was obtained for: when
\* the session of b@x.com has requested no code and verified nothing, no
\* execute request that tests a verified state acts on b@x.com, also after the
\* client verified as a@x.com and logged in to b@x.com without a logout.
C29_BoundToSubject ==
    [][(IsRequest /\ Gated(last') /\ last'.subj = "b@x.com")
       => ~(last'.ok /\ last'.act # "none")]_vars

\* --------------------------------------------------------------------- C30
\* The handlers behind /api/settings/.
SettingsOps == {"change_password", "verify_otp_only", "verify_old_pwd",
                "verify_pwd_final", "toggle_2fa_otp", "verify_2fa_otp",
                "toggle_2fa_final", "delete_account_request",
                "verify_otp_only_del", "delete_account_verify"}

\* C30: a settings request made with no user logged in answers Unauthorized
\* and changes neither the session nor the store; logout empties the session,
\* a verify request succeeds only on a live code in the session, which after
\* a logout only a new issuance can put there, and the settings or verify
\* request that follows a logout fails and changes nothing.
C30_LoggedOutIsInert ==
    [][IsRequest =>
        /\ (last'.op \in SettingsOps /\ sess.user = NoEmail)
            => /\ ~last'.ok /\ last'.msg = "Unauthorized" /\ last'.act = "none"
               /\ sess' = sess /\ db' = db /\ ver' = ver
        /\ last'.op = "logout"
            => /\ sess' = EmptySession
               /\ \A p \in Purposes : ~Live(sess', p) /\ ~FlagIn(sess', p)
        /\ (last'.op \in VerifyOps /\ last'.ok)
            => Live(sess, PurposeOf(last'.op))
        /\ (last.op = "logout" /\ last'.op \in SettingsOps \cup VerifyOps)
            => /\ ~last'.ok /\ last'.act = "none"
               /\ sess' = sess /\ db' = db /\ ver' = ver]_vars

\* After a password change and a logout, a settings request was answered
\* Unauthorized.
C30_Witness ==
    /\ last.op \in SettingsOps
    /\ last.msg = "Unauthorized"
    /\ sess = EmptySession
    /\ \E u \in RowsByEmail("a@x.com") : u.password = "pw2"
====
